---------------------------- MODULE Spec2Model ----------------------------
(***************************************************************************)
(* Output management subsystem of PdfTools (src/output_manager.py):        *)
(* OutputManager over a filesystem of directories and files, a clock and   *)
(* a persisted settings file.                                              *)
(*                                                                         *)
(* Paths are sequences of path segments (pathlib's Path.parts); file and   *)
(* directory names are strings, built and inspected character by           *)
(* character as the code does.  Time is in seconds of local time since     *)
(* 2026-01-01 00:00:00.                                                    *)
(***************************************************************************)
EXTENDS Integers, Sequences, FiniteSets, TLC

VARIABLES
    base_output_dir,    \* self.base_output_dir
    auto_cleanup_days,  \* self.auto_cleanup_days
    settings,           \* self.settings: key -> value
    config_file,        \* content of output_config.json on disk
    dirs,               \* the directories on disk (set of paths)
    files,              \* the files on disk: path -> [mtime, size, locked]
    now,                \* datetime.now()
    held,               \* per caller: the path get_output_path handed out
    call,               \* the operation that ran last, its arguments, whether it
                        \* repeats the operation before it and, if so, what
                        \* that one returned
    ret,                \* what that operation returned
    used                \* how many operations the behaviour has taken

vars == <<base_output_dir, auto_cleanup_days, settings, config_file,
          dirs, files, now, held, call, ret, used>>

----------------------------------------------------------------------------
(* Bounds of the model *)

\* how many operations that change the disk, the settings or the clock a
\* behaviour takes after the manager was constructed
MaxOps == 2

----------------------------------------------------------------------------
(* Values *)

None == "<None>"

\* class OutputType(Enum), in declaration order
OutputType == <<"compressed", "merged", "protected", "unprotected",
                "watermarked", "converted", "split">>

OutputTypes == {OutputType[i] : i \in DOMAIN OutputType}

\* operation_suffixes.get(output_type, 'processed')
operation_suffixes(t) ==
    CASE t = "compressed" -> "compressed"
      [] t = "merged" -> "merged"
      [] t = "protected" -> "protected"
      [] t = "unprotected" -> "unprotected"
      [] t = "watermarked" -> "watermarked"
      [] t = "converted" -> "converted"
      [] t = "split" -> "split"
      [] OTHER -> "processed"

\* the collision loop's ceiling: if counter > 1000: break
MaxAttempts == 1000

SecondsPerDay == 86400

BytesPerMiB == 1048576

----------------------------------------------------------------------------
(* Strings *)

EndsWith(s, t) ==
    /\ Len(s) >= Len(t)
    /\ SubSeq(s, Len(s) - Len(t) + 1, Len(s)) = t

\* str.rfind(ch): the last index of ch in s, 0 when there is none
RECURSIVE RFindFrom(_, _, _)
RFindFrom(s, ch, i) ==
    IF i = 0 THEN 0
    ELSE IF SubSeq(s, i, i) = ch THEN i
    ELSE RFindFrom(s, ch, i - 1)

RFind(s, ch) == RFindFrom(s, ch, Len(s))

\* Path(original_filename).name: what follows the last separator
PathName(s) == SubSeq(s, RFind(s, "/") + 1, Len(s))

\* a suffix starts at the last dot, unless that dot leads or ends the name
HasSuffix(name) ==
    LET i == RFind(name, ".") IN i > 1 /\ i < Len(name)

\* Path(original_filename).suffix
PathSuffix(s) ==
    LET name == PathName(s) IN
    IF HasSuffix(name) THEN SubSeq(name, RFind(name, "."), Len(name)) ELSE ""

\* Path(original_filename).stem
PathStem(s) ==
    LET name == PathName(s) IN
    IF HasSuffix(name) THEN SubSeq(name, 1, RFind(name, ".") - 1) ELSE name

\* '_'.join(parts)
RECURSIVE Join(_)
Join(parts) ==
    IF parts = <<>> THEN ""
    ELSE IF Len(parts) = 1 THEN parts[1]
    ELSE parts[1] \o "_" \o Join(Tail(parts))

\* f"{n:02d}"
Pad2(n) == IF n < 10 THEN "0" \o ToString(n) ELSE ToString(n)

----------------------------------------------------------------------------
(* Calendar: local time of the years 2026 and 2027 (no leap day) *)

DaysInMonth == <<31, 28, 31, 30, 31, 30, 31, 31, 30, 31, 30, 31>>

YearOf(t) == 2026 + (t \div SecondsPerDay) \div 365

\* <<month, day of month>> of the day-of-year d (0-based)
RECURSIVE MonthDay(_, _)
MonthDay(d, m) ==
    IF d < DaysInMonth[m] THEN <<m, d + 1>> ELSE MonthDay(d - DaysInMonth[m], m + 1)

MonthOf(t) == MonthDay((t \div SecondsPerDay) % 365, 1)[1]

DayOf(t) == MonthDay((t \div SecondsPerDay) % 365, 1)[2]

\* str(today.year)
YearStr(t) == ToString(YearOf(t))

\* f"{today.month:02d}"
MonthStr(t) == Pad2(MonthOf(t))

\* strftime('%Y%m%d_%H%M%S')
Timestamp(t) ==
    LET s == t % SecondsPerDay IN
    YearStr(t) \o MonthStr(t) \o Pad2(DayOf(t)) \o "_"
        \o Pad2(s \div 3600) \o Pad2((s % 3600) \div 60) \o Pad2(s % 60)

\* strftime('%Y-%m')
YearMonth(t) == YearStr(t) \o "-" \o MonthStr(t)


----------------------------------------------------------------------------
(* Paths and the filesystem *)

\* Path.cwd()
Cwd == <<"/", "app">>

NoPath == <<>>

Last(p) == p[Len(p)]

Parent(p) == SubSeq(p, 1, Len(p) - 1)

\* p lies strictly below directory d
IsUnder(p, d) == Len(p) > Len(d) /\ SubSeq(p, 1, Len(d)) = d

\* p and its ancestors: what mkdir(parents=True) makes sure of
Ancestry(p) == {SubSeq(p, 1, k) : k \in 1..Len(p)}

\* Path(s): the segments of the string s, the root first, empty segments dropped
RECURSIVE Segments(_)
Segments(s) ==
    IF s = "" THEN <<>>
    ELSE LET i == RFind(s, "/") IN
         IF i = 0 THEN <<s>>
         ELSE IF i = 1 THEN (IF Len(s) = 1 THEN <<"/">> ELSE <<"/", SubSeq(s, 2, Len(s))>>)
         ELSE IF i = Len(s) THEN Segments(SubSeq(s, 1, i - 1))
         ELSE Append(Segments(SubSeq(s, 1, i - 1)), SubSeq(s, i + 1, Len(s)))

\* str(path)
RECURSIVE PathStr(_)
PathStr(p) ==
    IF p = <<>> THEN "."
    ELSE IF Len(p) = 1 THEN p[1]
    ELSE IF Len(p) = 2 /\ p[1] = "/" THEN "/" \o p[2]
    ELSE PathStr(Parent(p)) \o "/" \o Last(p)

\* path.exists() on the disk (ds, fs)
ExistsOn(ds, fs, p) == p \in ds \/ p \in DOMAIN fs

\* directory.rglob('*'): every file below d
RGlobAny(fs, d) == {p \in DOMAIN fs : IsUnder(p, d)}

\* directory.rglob('*.pdf'): the entries below d whose name ends in .pdf
RGlobPdf(fs, d) == {p \in DOMAIN fs : IsUnder(p, d) /\ EndsWith(Last(p), ".pdf")}

\* the function fs without the paths of gone
Without(fs, gone) == [p \in DOMAIN fs \ gone |-> fs[p]]

\* the sizes of the files ps added up, one distinct size after the other
RECURSIVE SumBySize(_, _, _)
SumBySize(fs, ps, sizes) ==
    IF sizes = {} THEN 0
    ELSE LET v == CHOOSE x \in sizes : TRUE IN
         v * Cardinality({p \in ps : fs[p].size = v}) + SumBySize(fs, ps, sizes \ {v})

SumSizes(fs, ps) == SumBySize(fs, ps, {fs[p].size : p \in ps})

\* round(size / (1024 * 1024), 2), in hundredths of a MiB (ties to even)
RoundMiB(bytes) ==
    LET q == (bytes * 100) \div BytesPerMiB
        r == (bytes * 100) % BytesPerMiB
    IN  IF 2 * r > BytesPerMiB THEN q + 1
        ELSE IF 2 * r < BytesPerMiB THEN q
        ELSE IF q % 2 = 0 THEN q ELSE q + 1

----------------------------------------------------------------------------
(* Settings *)

\* settings.get(key, True)
Get(st, key) == IF key \in DOMAIN st THEN st[key] ELSE TRUE

\* default_settings of _load_settings
DefaultSettings(base, days) ==
    [base_output_dir |-> PathStr(base),
     auto_cleanup_days |-> days,
     create_subdirectories |-> TRUE,
     add_timestamp |-> TRUE,
     preserve_original_names |-> TRUE,
     max_files_per_directory |-> 1000]

\* The settings file is [kind, data]: kind "absent" (no file), "unreadable"
\* (open raises), "malformed" (json.load raises), or what json.load returns
\* for it: "record" (data: key -> JSON text of the value), "list" (items: a
\* sequence of strings), "string" (text: a string), "number", "null".

\* the keys whose values are booleans, and those whose values are integers;
\* the values of every other key are strings
BoolKeys == {"create_subdirectories", "add_timestamp", "preserve_original_names"}

IntKeys == {"auto_cleanup_days", "max_files_per_directory"}

\* json.dump of one value
JsonText(key, value) ==
    IF key \in BoolKeys THEN (IF value THEN "true" ELSE "false")
    ELSE IF key \in IntKeys THEN ToString(value)
    ELSE "\"" \o value \o "\""

Digit(ch) == CHOOSE d \in 0..9 : ToString(d) = ch

RECURSIVE ParseNat(_)
ParseNat(text) ==
    IF text = "" THEN 0
    ELSE 10 * ParseNat(SubSeq(text, 1, Len(text) - 1)) + Digit(SubSeq(text, Len(text), Len(text)))

\* json.load of one value
JsonValue(text) ==
    IF text = "true" THEN TRUE
    ELSE IF text = "false" THEN FALSE
    ELSE IF SubSeq(text, 1, 1) = "\"" THEN SubSeq(text, 2, Len(text) - 1)
    ELSE IF SubSeq(text, 1, 1) = "-" THEN 0 - ParseNat(SubSeq(text, 2, Len(text)))
    ELSE ParseNat(text)

\* sub in s, for strings
Contains(s, sub) ==
    \E i \in 1..(Len(s) - Len(sub) + 1) : SubSeq(s, i, i + Len(sub) - 1) = sub

\* key in settings, for what json.load returned; it raises for a number and
\* for null
HasKey(cfg, key) ==
    CASE cfg.kind = "record" -> key \in DOMAIN cfg.data
      [] cfg.kind = "list" -> \E i \in DOMAIN cfg.items : cfg.items[i] = key
      [] cfg.kind = "string" -> Contains(cfg.text, key)

\* _load_settings in which the defaults win over the file's values
LoadSettingsDefaultsWin(base, days, cfg) ==
    LET default_settings == DefaultSettings(base, days) IN
    IF cfg.kind = "record"
    THEN [type |-> "dict",
          value |-> [key \in DOMAIN cfg.data \cup DOMAIN default_settings |->
                        IF key \in DOMAIN default_settings THEN default_settings[key]
                        ELSE JsonValue(cfg.data[key])]]
    ELSE [type |-> "dict", value |-> default_settings]

\* _load_settings: the file's record with the missing defaults filled in; the
\* defaults when there is no file, or open, json.load or the merge raises.
\* The merge assigns settings[key] for each default key not in settings: that
\* raises for a list and for a string, and `not in` itself raises for a
\* number and for null; a list or a string in which every default key is
\* found is returned as it is.  The result is [type, value], type being the
\* Python type of what is returned.
LoadSettingsTyped(base, days, cfg) ==
    LET default_settings == DefaultSettings(base, days) IN
    IF cfg.kind = "record"
    THEN [type |-> "dict",
          value |-> [key \in DOMAIN cfg.data \cup DOMAIN default_settings |->
                        IF key \notin DOMAIN cfg.data THEN default_settings[key]
                        ELSE JsonValue(cfg.data[key])]]
    ELSE IF cfg.kind \in {"list", "string"}
            /\ \A key \in DOMAIN default_settings : HasKey(cfg, key)
    THEN IF cfg.kind = "list" THEN [type |-> "list", value |-> cfg.items]
         ELSE [type |-> "str", value |-> cfg.text]
    ELSE [type |-> "dict", value |-> default_settings]

LoadSettings(base, days, cfg) == LoadSettingsTyped(base, days, cfg).value

\* _save_settings that writes the keys configure_settings accepts, and no other
SaveSettingsAllowListed(st) ==
    [kind |-> "record",
     data |-> [key \in DOMAIN st \cap (BoolKeys \cup IntKeys) |-> JsonText(key, st[key])]]

\* _save_settings: json.dump(self.settings), nothing written of the old file
SaveSettings(st) ==
    [kind |-> "record", data |-> [key \in DOMAIN st |-> JsonText(key, st[key])]]

\* valid_settings of configure_settings
valid_settings ==
    {"auto_cleanup_days", "create_subdirectories", "add_timestamp",
     "preserve_original_names", "max_files_per_directory"}

\* every key of kwargs taken, valid or not
ApplyKwargsAll(st, kwargs) ==
    [key \in DOMAIN st \cup DOMAIN kwargs |->
        IF key \in DOMAIN kwargs THEN kwargs[key] ELSE st[key]]

\* for key, value in kwargs.items(): if key in valid_settings: settings[key] = value
ApplyKwargs(st, kwargs) ==
    [key \in DOMAIN st \cup (DOMAIN kwargs \cap valid_settings) |->
        IF key \in DOMAIN kwargs /\ key \in valid_settings THEN kwargs[key]
        ELSE st[key]]

----------------------------------------------------------------------------
(* _create_directory_structure *)

\* base / output_type.value / str(today.year) / f"{today.month:02d}"
MonthDir(base, ty, t) == base \o <<ty, YearStr(t), MonthStr(t)>>

\* the structure made afresh: what was below base is dropped first
CreateDirectoryStructureAfresh(ds, base, st, t) ==
    LET withBase == {d \in ds : ~IsUnder(d, base)} \cup Ancestry(base) IN
    IF Get(st, "create_subdirectories")
    THEN withBase \cup UNION {Ancestry(MonthDir(base, ty, t)) : ty \in OutputTypes}
    ELSE withBase

CreateDirectoryStructure(ds, base, st, t) ==
    LET withBase == ds \cup Ancestry(base) IN
    IF Get(st, "create_subdirectories")
    THEN withBase \cup UNION {Ancestry(MonthDir(base, ty, t)) : ty \in OutputTypes}
    ELSE withBase

----------------------------------------------------------------------------
(* get_output_path *)

\* extension or original_path.suffix or '.pdf'
FileExtension(original_filename, extension) ==
    IF extension # None /\ extension # "" THEN extension
    ELSE IF PathSuffix(original_filename) # "" THEN PathSuffix(original_filename)
    ELSE ".pdf"

\* the target directory with create_subdirectories not looked at
OutputDirNested(base, st, ty, t) == MonthDir(base, ty, t)

\* the target directory of get_output_path
OutputDir(base, st, ty, t) ==
    IF Get(st, "create_subdirectories") THEN MonthDir(base, ty, t) ELSE base

\* filename_parts with the timestamp put before the suffix
FilenamePartsSwapped(st, original_filename, ty, custom_suffix, t) ==
    (IF Get(st, "preserve_original_names") THEN <<PathStem(original_filename)>> ELSE <<>>)
    \o (IF Get(st, "add_timestamp") THEN <<Timestamp(t)>> ELSE <<>>)
    \o (IF custom_suffix # None /\ custom_suffix # ""
        THEN <<custom_suffix>> ELSE <<operation_suffixes(ty)>>)

\* filename_parts
FilenameParts(st, original_filename, ty, custom_suffix, t) ==
    (IF Get(st, "preserve_original_names") THEN <<PathStem(original_filename)>> ELSE <<>>)
    \o (IF custom_suffix # None /\ custom_suffix # ""
        THEN <<custom_suffix>> ELSE <<operation_suffixes(ty)>>)
    \o (IF Get(st, "add_timestamp") THEN <<Timestamp(t)>> ELSE <<>>)

\* '_'.join(filename_parts) + file_extension
Filename(parts, ext) == Join(parts) \o ext

\* '_'.join(filename_parts + [f'({counter})']) + file_extension
FilenameWithCounter(parts, counter, ext) ==
    Join(Append(parts, "(" \o ToString(counter) \o ")")) \o ext

\* The collision loop, from the state (output_path, counter):
\*     while output_path.exists():
\*         output_path = output_dir / filename_with_counter
\*         counter += 1
\*         if counter > 1000: break
\* run for at most fuel + 1 iterations; done tells whether the loop has ended.
RECURSIVE LoopRun(_, _, _, _)
LoopRun(ctx, output_path, counter, fuel) ==
    IF ~ExistsOn(ctx.ds, ctx.fs, output_path)
    THEN [done |-> TRUE, output_path |-> output_path, counter |-> counter]
    ELSE LET next_path == ctx.dir \o <<FilenameWithCounter(ctx.parts, counter, ctx.ext)>>
             next_counter == counter + 1
         IN  IF next_counter > MaxAttempts
             THEN [done |-> TRUE, output_path |-> next_path, counter |-> next_counter]
             ELSE IF fuel = 0
             THEN [done |-> FALSE, output_path |-> next_path, counter |-> next_counter]
             ELSE LoopRun(ctx, next_path, next_counter, fuel - 1)

\* no loop: the canonical path is returned whether it exists or not
CollisionLoopNone(ctx, output_path, counter) ==
    [done |-> TRUE, output_path |-> output_path, counter |-> counter]

\* the loop run to its end, 50 iterations at a time (the evaluator's depth)
RECURSIVE CollisionLoop(_, _, _)
CollisionLoop(ctx, output_path, counter) ==
    LET r == LoopRun(ctx, output_path, counter, 49) IN
    IF r.done THEN r ELSE CollisionLoop(ctx, r.output_path, r.counter)

\* get_output_path with the loop's counter started at 2
OutputPathFromTwo(ds, fs, base, st, original_filename, ty, custom_suffix, extension, t) ==
    LET dir == OutputDir(base, st, ty, t)
        parts == FilenameParts(st, original_filename, ty, custom_suffix, t)
        ext == FileExtension(original_filename, extension)
        ctx == [ds |-> ds, fs |-> fs, dir |-> dir, parts |-> parts, ext |-> ext]
    IN  CollisionLoop(ctx, dir \o <<Filename(parts, ext)>>, 2)

\* get_output_path whose loop tests the ceiling before it makes the next
\* candidate: at the ceiling the candidate before the last is returned
OutputPathStopsShort(ds, fs, base, st, original_filename, ty, custom_suffix, extension, t) ==
    LET dir == OutputDir(base, st, ty, t)
        parts == FilenameParts(st, original_filename, ty, custom_suffix, t)
        ext == FileExtension(original_filename, extension)
        ctx == [ds |-> ds, fs |-> fs, dir |-> dir, parts |-> parts, ext |-> ext]
        r == CollisionLoop(ctx, dir \o <<Filename(parts, ext)>>, 1)
    IN  IF r.counter > MaxAttempts
        THEN [r EXCEPT !.output_path =
                  dir \o <<FilenameWithCounter(parts, MaxAttempts - 1, ext)>>]
        ELSE r

\* get_output_path on the disk (ds, fs): the loop's final (output_path, counter)
OutputPathResult(ds, fs, base, st, original_filename, ty, custom_suffix, extension, t) ==
    LET dir == OutputDir(base, st, ty, t)
        parts == FilenameParts(st, original_filename, ty, custom_suffix, t)
        ext == FileExtension(original_filename, extension)
        ctx == [ds |-> ds, fs |-> fs, dir |-> dir, parts |-> parts, ext |-> ext]
    IN  CollisionLoop(ctx, dir \o <<Filename(parts, ext)>>, 1)

\* batch_<timestamp> below the month directory, or below base
BatchDir(base, st, ty, t) ==
    IF Get(st, "create_subdirectories")
    THEN MonthDir(base, ty, t) \o <<"batch_" \o Timestamp(t)>>
    ELSE base \o <<"batch_" \o Timestamp(t)>>

----------------------------------------------------------------------------
(* PDFProcessor.batch_process_directory with operation 'compress' *)

\* os.listdir(input_directory), the names ending in .pdf
PdfFilesIn(fs, input_directory) ==
    {p \in DOMAIN fs : Parent(p) = input_directory /\ EndsWith(Last(p), ".pdf")}

\* compress_pdf(input_file, output_file) with output_file given: the path it
\* saves at is get_output_path(input_file, COMPRESSED, custom_suffix = the
\* stem of output_file's basename)
CompressTarget(m, input_file, output_file) ==
    OutputPathResult(m.ds \cup Ancestry(OutputDir(m.base, m.st, "compressed", m.t)),
                     m.fs, m.base, m.st, input_file, "compressed",
                     PathStem(output_file), None, m.t).output_path

\* for input_file in pdf_files: output_file = os.path.join(batch_dir, filename)
\* and compress_pdf(input_file, output_file); saved tells whether pikepdf
\* saves the files or raises
RECURSIVE BatchLoop(_, _, _, _, _)
BatchLoop(m, pdf_files, batch_dir, saved, results) ==
    IF pdf_files = {} THEN [m |-> m, results |-> results]
    ELSE LET input_file == CHOOSE f \in pdf_files : TRUE
             output_file == PathStr(batch_dir) \o "/" \o Last(input_file)
             target == CompressTarget(m, PathStr(input_file), output_file)
             after == [m EXCEPT
                         !.ds = m.ds \cup Ancestry(Parent(target)),
                         !.fs = IF saved
                                THEN (target :> [mtime |-> m.t, size |-> m.fs[input_file].size,
                                                 locked |-> FALSE]) @@ m.fs
                                ELSE m.fs]
         IN  BatchLoop(after, pdf_files \ {input_file}, batch_dir, saved,
                       IF saved
                       THEN [results EXCEPT !.processed_list = Append(@, target)]
                       ELSE [results EXCEPT !.failed_files = @ + 1])

----------------------------------------------------------------------------
(* Cleanup *)

\* directory.iterdir()
Entries(ds, fs, d) == {q \in ds \cup DOMAIN fs : Len(q) = Len(d) + 1 /\ Parent(q) = d}

MaxDepth(ds) == CHOOSE n \in {Len(d) : d \in ds} : \A d \in ds : Len(d) <= n

\* the directories that are empty before the pass are removed, and no parent
\* that only the pass empties
RemoveEmptySnapshot(ds, fs, base, depth) ==
    ds \ {d \in ds : IsUnder(d, base) /\ Entries(ds, fs, d) = {}}

\* the directories below base, deepest first (sorted by len(p.parts), reversed):
\* each one that is empty when its turn comes is removed
RECURSIVE RemoveFromDepth(_, _, _, _)
RemoveFromDepth(ds, fs, base, depth) ==
    IF depth <= Len(base) THEN ds
    ELSE LET empty == {d \in ds : /\ Len(d) = depth
                                  /\ IsUnder(d, base)
                                  /\ Entries(ds, fs, d) = {}}
         IN  RemoveFromDepth(ds \ empty, fs, base, depth - 1)

\* _remove_empty_directories
RemoveEmptyDirectories(ds, fs, base) ==
    IF ~ExistsOn(ds, fs, base) THEN ds
    ELSE RemoveFromDepth(ds, fs, base, MaxDepth(ds))

\* the walk with file_date <= cutoff_date for file_date < cutoff_date
CleanDirInclusive(acc, target_dir, cutoff_date) ==
    LET old == {p \in RGlobPdf(acc.fs, target_dir) : acc.fs[p].mtime <= cutoff_date}
        gone == {p \in old : ~acc.fs[p].locked}
    IN  [fs |-> Without(acc.fs, gone),
         deleted_count |-> acc.deleted_count + Cardinality(gone),
         deleted_size |-> acc.deleted_size + SumSizes(acc.fs, old)]

\* for file_path in target_dir.rglob('*.pdf'): the files older than the cutoff
\* are unlinked; deleted_size grows before unlink, deleted_count after it, so a
\* file whose unlink raises adds its size and not its count
CleanDir(acc, target_dir, cutoff_date) ==
    LET old == {p \in RGlobPdf(acc.fs, target_dir) : acc.fs[p].mtime < cutoff_date}
        gone == {p \in old : ~acc.fs[p].locked}
    IN  [fs |-> Without(acc.fs, gone),
         deleted_count |-> acc.deleted_count + Cardinality(gone),
         deleted_size |-> acc.deleted_size + SumSizes(acc.fs, old)]

\* for target_dir in target_dirs: if not target_dir.exists(): continue
RECURSIVE CleanDirs(_, _, _, _)
CleanDirs(acc, ds, target_dirs, cutoff_date) ==
    IF target_dirs = <<>> THEN acc
    ELSE CleanDirs(IF ExistsOn(ds, acc.fs, Head(target_dirs))
                   THEN CleanDir(acc, Head(target_dirs), cutoff_date) ELSE acc,
                   ds, Tail(target_dirs), cutoff_date)

\* target_dirs with file_types ignored
TargetDirsAll(base, file_types) == <<base>>

\* target_dirs of manual_cleanup; file_types None or [] stands for every file
TargetDirs(base, file_types) ==
    IF file_types # <<>> THEN [i \in DOMAIN file_types |-> base \o <<file_types[i]>>]
    ELSE <<base>>

NothingDeleted == [deleted_files |-> 0, deleted_size_mb |-> 0]

\* the walk and the pruning of a cleanup pass: the disk and the result after it
CleanupPass(ds, fs, base, target_dirs, days, t) ==
    LET cutoff_date == t - days * SecondsPerDay
        acc == CleanDirs([fs |-> fs, deleted_count |-> 0, deleted_size |-> 0],
                         ds, target_dirs, cutoff_date)
    IN  [fs |-> acc.fs,
         ds |-> RemoveEmptyDirectories(ds, acc.fs, base),
         result |-> [deleted_files |-> acc.deleted_count,
                     deleted_size_mb |-> RoundMiB(acc.deleted_size)]]

\* manual_cleanup with days_older_than < 0 for days_older_than <= 0
ManualCleanupFromZero(ds, fs, base, auto_days, days_older_than, file_types, t) ==
    LET days == IF days_older_than = <<>> THEN auto_days ELSE days_older_than[1] IN
    IF days < 0 \/ ~ExistsOn(ds, fs, base)
    THEN [fs |-> fs, ds |-> ds, result |-> NothingDeleted]
    ELSE CleanupPass(ds, fs, base, TargetDirs(base, file_types), days, t)

\* manual_cleanup(days_older_than, file_types); days_older_than is <<>> when
\* omitted and <<d>> when given
ManualCleanupResult(ds, fs, base, auto_days, days_older_than, file_types, t) ==
    LET days == IF days_older_than = <<>> THEN auto_days ELSE days_older_than[1] IN
    IF days <= 0 \/ ~ExistsOn(ds, fs, base)
    THEN [fs |-> fs, ds |-> ds, result |-> NothingDeleted]
    ELSE CleanupPass(ds, fs, base, TargetDirs(base, file_types), days, t)

\* _auto_cleanup
AutoCleanupResult(ds, fs, base, auto_days, t) ==
    IF auto_days <= 0 \/ ~ExistsOn(ds, fs, base)
    THEN [fs |-> fs, ds |-> ds, result |-> None]
    ELSE CleanupPass(ds, fs, base, <<base>>, auto_days, t)

----------------------------------------------------------------------------
(* get_output_statistics *)

\* file_path.parent.name
ParentName(p) == Last(Parent(p))

\* datetime.fromtimestamp(file_stat.st_mtime).strftime('%Y-%m')
ModDate(fs, p) == YearMonth(fs[p].mtime)

\* the entry of one key of by_type or by_date: {'count': .., 'size_mb': ..},
\* the size rounded to hundredths of a MiB
Group(fs, ps) == [count |-> Cardinality(ps), size_mb |-> RoundMiB(SumSizes(fs, ps))]

ZeroStats == [total_files |-> 0, total_size_mb |-> 0, by_type |-> <<>>, by_date |-> <<>>]

\* the statistics over the files ps
StatsOver(fs, ps) ==
    [total_files |-> Cardinality(ps),
     total_size_mb |-> RoundMiB(SumSizes(fs, ps)),
     by_type |-> [k \in {ParentName(p) : p \in ps} |->
                     Group(fs, {p \in ps : ParentName(p) = k})],
     by_date |-> [k \in {ModDate(fs, p) : p \in ps} |->
                     Group(fs, {p \in ps : ModDate(fs, p) = k})]]

\* the statistics with glob('*.pdf') for rglob('*.pdf')
StatisticsShallow(ds, fs, base) ==
    IF ~ExistsOn(ds, fs, base) THEN ZeroStats
    ELSE StatsOver(fs, {p \in RGlobPdf(fs, base) : Parent(p) = base})

\* get_output_statistics on the disk (ds, fs)
Statistics(ds, fs, base) ==
    IF ~ExistsOn(ds, fs, base) THEN ZeroStats
    ELSE StatsOver(fs, RGlobPdf(fs, base))

----------------------------------------------------------------------------
(* __init__ *)

\* OutputManager(base_output_dir, auto_cleanup_days) on the disk (ds, fs) with
\* the settings file cfg at time t; base_arg is None or a directory name
Constructed(ds, fs, cfg, base_arg, days_arg, t) ==
    LET base == IF base_arg # None /\ base_arg # "" THEN Segments(base_arg)
                ELSE Cwd \o <<"output">>
        st == LoadSettings(base, days_arg, cfg)
        made == CreateDirectoryStructure(ds, base, st, t)
        cleaned == IF days_arg > 0 THEN AutoCleanupResult(made, fs, base, days_arg, t)
                   ELSE [fs |-> fs, ds |-> made, result |-> None]
    IN  [base_output_dir |-> base, auto_cleanup_days |-> days_arg, settings |-> st,
         dirs |-> cleaned.ds, files |-> cleaned.fs, cleanup |-> cleaned.result]

----------------------------------------------------------------------------
(* The environment the manager starts in, and the inputs of its operations *)

\* the clock at the start: 2026-09-30 23:59:59
T0 == 272 * SecondsPerDay + 86399

\* OutputManager(auto_cleanup_days=30)
DefaultCleanupDays == 30

DefaultBase == Cwd \o <<"output">>

File(mtime, size, locked) == [mtime |-> mtime, size |-> size, locked |-> locked]

Callers == {"c1", "c2"}

\* an empty disk
EnvEmpty == [ds |-> Ancestry(Cwd), fs |-> <<>>]

\* output files of earlier sessions, around the retention cutoff
AgedFiles ==
    (DefaultBase \o <<"merged", "2026", "08", "a_merged.pdf">>)
        :> File(T0 - DefaultCleanupDays * SecondsPerDay - 1, BytesPerMiB, FALSE)
    @@ (DefaultBase \o <<"merged", "2026", "08", "b_merged.pdf">>)
        :> File(T0 - DefaultCleanupDays * SecondsPerDay, 131072, FALSE)
    @@ (DefaultBase \o <<"compressed", "2026", "09", "c_compressed.pdf">>)
        :> File(T0 - SecondsPerDay - 1, BytesPerMiB, FALSE)
    @@ (DefaultBase \o <<"protected", "2026", "08", "p_protected.pdf">>)
        :> File(T0 - DefaultCleanupDays * SecondsPerDay - 1, 131072, TRUE)
    @@ (DefaultBase \o <<"converted", "2026", "08", "page.txt">>)
        :> File(T0 - DefaultCleanupDays * SecondsPerDay - 1, 131072, FALSE)
    @@ (DefaultBase \o <<"merged", "2026", "09", "memo_batch.pdf">>)
        :> File(T0 - 60, BytesPerMiB, FALSE)
    @@ (DefaultBase \o <<"merged", "2026", "09", "memo_batch_(1).pdf">>)
        :> File(T0 - 30, BytesPerMiB, FALSE)
    @@ (DefaultBase \o <<"loose.pdf">>)
        :> File(T0 - DefaultCleanupDays * SecondsPerDay - 1, BytesPerMiB, FALSE)
    @@ (Cwd \o <<"inbox", "x.pdf">>)
        :> File(T0 - DefaultCleanupDays * SecondsPerDay - 1, BytesPerMiB, FALSE)

EnvAged ==
    [ds |-> UNION {Ancestry(Parent(p)) : p \in DOMAIN AgedFiles}
            \cup {DefaultBase \o <<"split">>},
     fs |-> AgedFiles]

\* a month directory in which one output name and its disambiguated names
\* (1)..(1000) are all taken
CrowdDir == DefaultBase \o <<"compressed", "2026", "09">>

CrowdName(n) ==
    IF n = 0 THEN "memo_compressed_20260930_235959.pdf"
    ELSE "memo_compressed_20260930_235959_(" \o ToString(n) \o ").pdf"

EnvCrowded ==
    [ds |-> Ancestry(CrowdDir),
     fs |-> [p \in {CrowdDir \o <<CrowdName(n)>> : n \in 0..MaxAttempts}
                |-> File(T0, BytesPerMiB, FALSE)]]

Envs == {EnvEmpty, EnvAged}

\* output_config.json: absent, not JSON, or a record saved earlier
ConfigFiles ==
    {[kind |-> "absent"],
     [kind |-> "record", data |-> [add_timestamp |-> "false", theme |-> "\"dark\""]]}

ConstructorDays == {0, DefaultCleanupDays}

\* the calls of get_output_path the PDF operations make
Call(original_filename, ty, custom_suffix, extension) ==
    [original_filename |-> original_filename, output_type |-> ty,
     custom_suffix |-> custom_suffix, extension |-> extension]

PathCalls ==
    {Call("memo", "compressed", None, None),
     Call("in/report.v2.pdf", "compressed", None, None),
     Call("memo", "merged", "batch", None),
     Call("in/report.v2.pdf", "merged", "", ".txt")}

BatchTypes == {"merged"}
WriteSizes == {BytesPerMiB}
ClockSteps == {1}

\* the calls of manual_cleanup: <<days_older_than, file_types>>
CleanupCalls ==
    {<< <<>>, <<>> >>, << <<0>>, <<>> >>, << <<-1>>, <<"merged">> >>,
     << <<1>>, <<"compressed", "merged">> >>,
     << <<DefaultCleanupDays>>, <<>> >>, << <<DefaultCleanupDays>>, <<"merged">> >>}

BaseDirs == {"/data/out"}

\* the directory batch_process_directory is pointed at
InputDirs == {Cwd \o <<"inbox">>}

KwargsArgs ==
    {[create_subdirectories |-> FALSE], [create_subdirectories |-> TRUE],
     [add_timestamp |-> FALSE, preserve_original_names |-> FALSE],
     [auto_cleanup_days |-> 0, max_files_per_directory |-> 10],
     [base_output_dir |-> "/data/out", theme |-> "light"]}

----------------------------------------------------------------------------
(* The state machine *)

InitIn(envs) ==
    \E env \in envs, cfg \in ConfigFiles, days_arg \in ConstructorDays :
        LET m == Constructed(env.ds, env.fs, cfg, None, days_arg, T0) IN
        /\ base_output_dir = m.base_output_dir
        /\ auto_cleanup_days = m.auto_cleanup_days
        /\ settings = m.settings
        /\ config_file = cfg
        /\ dirs = m.dirs
        /\ files = m.files
        /\ now = T0
        /\ held = [c \in Callers |-> NoPath]
        /\ call = [op |-> "construct", repeat |-> FALSE, prev_ret |-> None,
                    args |-> [base_arg |-> None, days_arg |-> days_arg]]
        /\ ret = None
        /\ used = 0

Init == InitIn(Envs)

\* the record of a call: repeat tells that the call before it was the same
\* operation with the same arguments (and so at the same time, the clock
\* moving only in steps of its own)
Called(op, args) ==
    LET repeat == call.op = op /\ call.args = args IN
    [op |-> op, args |-> args, repeat |-> repeat,
     prev_ret |-> IF repeat THEN ret ELSE None]

\* no operation of a PDF function is between its get_output_path and its save
Idle == \A c \in Callers : held[c] = NoPath

\* the application is started again: OutputManager(auto_cleanup_days=days_arg)
Construct(days_arg) ==
    /\ Idle
    /\ used < MaxOps
    /\ LET m == Constructed(dirs, files, config_file, None, days_arg, now) IN
        /\ base_output_dir' = m.base_output_dir
        /\ auto_cleanup_days' = m.auto_cleanup_days
        /\ settings' = m.settings
        /\ dirs' = m.dirs
        /\ files' = m.files
    /\ held' = [c \in Callers |-> NoPath]
    /\ call' = Called("construct", [base_arg |-> None, days_arg |-> days_arg])
    /\ ret' = None
    /\ used' = used + 1
    /\ UNCHANGED <<config_file, now>>

\* get_output_path without output_dir.mkdir(parents=True, exist_ok=True)
GetOutputPathNoMkdir(c, a) ==
    LET r == OutputPathResult(dirs, files, base_output_dir, settings,
                              a.original_filename, a.output_type, a.custom_suffix,
                              a.extension, now)
    IN  /\ held[c] = NoPath \/ (call.op = "get_output_path" /\ call.args = a)
        /\ held' = [held EXCEPT ![c] = r.output_path]
        /\ call' = Called("get_output_path", a)
        /\ ret' = r.output_path
        /\ UNCHANGED <<base_output_dir, auto_cleanup_days, settings, config_file,
                       dirs, files, now, used>>

\* get_output_path that reserves the name it hands out with an empty file
GetOutputPathReserving(c, a) ==
    LET made == dirs \cup Ancestry(OutputDir(base_output_dir, settings, a.output_type, now))
        r == OutputPathResult(made, files, base_output_dir, settings,
                              a.original_filename, a.output_type, a.custom_suffix,
                              a.extension, now)
    IN  /\ held[c] = NoPath \/ (call.op = "get_output_path" /\ call.args = a)
        /\ dirs' = made
        /\ files' = (r.output_path :> File(now, 0, FALSE)) @@ files
        /\ held' = [held EXCEPT ![c] = r.output_path]
        /\ call' = Called("get_output_path", a)
        /\ ret' = r.output_path
        /\ UNCHANGED <<base_output_dir, auto_cleanup_days, settings, config_file,
                       now, used>>

\* get_output_path(original_filename, output_type, custom_suffix, extension);
\* a caller that holds a path asks for the same one again, or saves or fails
GetOutputPath(c, a) ==
    LET original_filename == a.original_filename
        ty == a.output_type
        custom_suffix == a.custom_suffix
        extension == a.extension
        made == dirs \cup Ancestry(OutputDir(base_output_dir, settings, ty, now))
        r == OutputPathResult(made, files, base_output_dir, settings,
                              original_filename, ty, custom_suffix, extension, now)
    IN  /\ held[c] = NoPath \/ (call.op = "get_output_path" /\ call.args = a)
        /\ dirs' = made
        /\ held' = [held EXCEPT ![c] = r.output_path]
        /\ call' = Called("get_output_path", a)
        /\ ret' = r.output_path
        /\ UNCHANGED <<base_output_dir, auto_cleanup_days, settings, config_file,
                       files, now, used>>

\* the PDF operation saves its result at the path it was handed; the save
\* raises when the directory is gone
WriteFile(c, size) ==
    /\ held[c] # NoPath
    /\ used < MaxOps
    /\ files' = IF Parent(held[c]) \in dirs /\ held[c] \notin dirs
                THEN (held[c] :> File(now, size, FALSE)) @@ files
                ELSE files
    /\ held' = [held EXCEPT ![c] = NoPath]
    /\ call' = Called("write", [caller |-> c, path |-> held[c], size |-> size])
    /\ ret' = None
    /\ used' = used + 1
    /\ UNCHANGED <<base_output_dir, auto_cleanup_days, settings, config_file, dirs, now>>

\* the PDF operation raises before it saves anything
FailWrite(c) ==
    /\ held[c] # NoPath
    /\ used < MaxOps
    /\ held' = [held EXCEPT ![c] = NoPath]
    /\ call' = Called("failed_write", [caller |-> c, path |-> held[c]])
    /\ ret' = None
    /\ used' = used + 1
    /\ UNCHANGED <<base_output_dir, auto_cleanup_days, settings, config_file,
                   dirs, files, now>>

\* get_batch_output_directory(output_type)
GetBatchOutputDirectory(ty) ==
    LET batch_dir == BatchDir(base_output_dir, settings, ty, now) IN
    /\ Idle
    /\ used < MaxOps
    /\ dirs' = dirs \cup Ancestry(batch_dir)
    /\ call' = Called("get_batch_output_directory", [output_type |-> ty])
    /\ ret' = batch_dir
    /\ used' = used + 1
    /\ UNCHANGED <<base_output_dir, auto_cleanup_days, settings, config_file,
                   files, now, held>>

\* _create_directory_structure(), called on its own
EnsureStructure ==
    /\ Idle
    /\ used < MaxOps
    /\ dirs' = CreateDirectoryStructure(dirs, base_output_dir, settings, now)
    /\ call' = Called("_create_directory_structure", [none |-> None])
    /\ ret' = None
    /\ used' = used + 1
    /\ UNCHANGED <<base_output_dir, auto_cleanup_days, settings, config_file,
                   files, now, held>>

\* set_base_output_directory that takes the old directory's files along
SetBaseOutputDirectoryMoving(new_directory) ==
    LET moved(p) == Segments(new_directory)
                        \o SubSeq(p, Len(base_output_dir) + 1, Len(p))
        mine == {p \in DOMAIN files : IsUnder(p, base_output_dir)}
    IN  /\ Idle
        /\ used < MaxOps
        /\ base_output_dir' = Segments(new_directory)
        /\ settings' = [key \in DOMAIN settings \cup {"base_output_dir"} |->
                           IF key = "base_output_dir" THEN new_directory ELSE settings[key]]
        /\ config_file' = SaveSettings(settings')
        /\ files' = [q \in (DOMAIN files \ mine) \cup {moved(p) : p \in mine} |->
                        IF q \in DOMAIN files \ mine THEN files[q]
                        ELSE files[CHOOSE p \in mine : moved(p) = q]]
        /\ dirs' = CreateDirectoryStructure(dirs, base_output_dir', settings', now)
                        \cup UNION {Ancestry(Parent(q)) : q \in DOMAIN files'}
        /\ call' = Called("set_base_output_directory", [new_directory |-> new_directory])
        /\ ret' = None
        /\ used' = used + 1
        /\ UNCHANGED <<auto_cleanup_days, now, held>>

\* set_base_output_directory(new_directory)
SetBaseOutputDirectory(new_directory) ==
    /\ Idle
    /\ used < MaxOps
    /\ base_output_dir' = Segments(new_directory)
    /\ settings' = [key \in DOMAIN settings \cup {"base_output_dir"} |->
                       IF key = "base_output_dir" THEN new_directory ELSE settings[key]]
    /\ config_file' = SaveSettings(settings')
    /\ dirs' = CreateDirectoryStructure(dirs, base_output_dir', settings', now)
    /\ call' = Called("set_base_output_directory", [new_directory |-> new_directory])
    /\ ret' = None
    /\ used' = used + 1
    /\ UNCHANGED <<auto_cleanup_days, files, now, held>>

\* configure_settings(**kwargs)
ConfigureSettings(kwargs) ==
    /\ Idle
    /\ used < MaxOps
    /\ settings' = ApplyKwargs(settings, kwargs)
    /\ config_file' = SaveSettings(settings')
    /\ auto_cleanup_days' = IF "auto_cleanup_days" \in DOMAIN kwargs
                            THEN kwargs["auto_cleanup_days"] ELSE auto_cleanup_days
    /\ dirs' = IF "create_subdirectories" \in DOMAIN kwargs
               THEN CreateDirectoryStructure(dirs, base_output_dir, settings', now)
               ELSE dirs
    /\ call' = Called("configure_settings", [kwargs |-> kwargs])
    /\ ret' = None
    /\ used' = used + 1
    /\ UNCHANGED <<base_output_dir, files, now, held>>

\* manual_cleanup(days_older_than, file_types)
ManualCleanup(days_older_than, file_types) ==
    LET r == ManualCleanupResult(dirs, files, base_output_dir, auto_cleanup_days,
                                 days_older_than, file_types, now)
    IN  /\ Idle
        /\ used < MaxOps
        /\ files' = r.fs
        /\ dirs' = r.ds
        /\ call' = Called("manual_cleanup", [days_older_than |-> days_older_than,
                                              file_types |-> file_types])
        /\ ret' = r.result
        /\ used' = used + 1
        /\ UNCHANGED <<base_output_dir, auto_cleanup_days, settings, config_file,
                       now, held>>

\* batch_process_directory(input_directory, 'compress')
BatchProcessDirectory(input_directory, saved) ==
    LET pdf_files == PdfFilesIn(files, input_directory)
        batch_dir == BatchDir(base_output_dir, settings, "compressed", now)
        m == [ds |-> dirs \cup Ancestry(batch_dir), fs |-> files,
              base |-> base_output_dir, st |-> settings, t |-> now]
        r == BatchLoop(m, pdf_files, batch_dir, saved,
                       [status |-> "returned", output_directory |-> batch_dir,
                        processed_list |-> <<>>, failed_files |-> 0])
    IN  /\ Idle
        /\ used < MaxOps
        /\ call' = Called("batch_process_directory",
                          [input_directory |-> input_directory, saved |-> saved])
        /\ IF input_directory \notin dirs
           THEN /\ ret' = [status |-> "raised", error |-> "FileNotFoundError"]
                /\ UNCHANGED <<dirs, files>>
           ELSE IF pdf_files = {}
           THEN /\ ret' = [status |-> "raised", error |-> "ValueError"]
                /\ UNCHANGED <<dirs, files>>
           ELSE /\ ret' = r.results
                /\ dirs' = r.m.ds
                /\ files' = r.m.fs
        /\ used' = used + 1
        /\ UNCHANGED <<base_output_dir, auto_cleanup_days, settings, config_file,
                       now, held>>

\* get_output_statistics()
GetOutputStatistics ==
    /\ Idle
    /\ used < MaxOps
    /\ call' = Called("get_output_statistics", [none |-> None])
    /\ ret' = Statistics(dirs, files, base_output_dir)
    /\ used' = used + 1
    /\ UNCHANGED <<base_output_dir, auto_cleanup_days, settings, config_file,
                   dirs, files, now, held>>

\* the output directory is removed from outside, with all that is in it
RemoveOutputTree ==
    /\ Idle
    /\ used < MaxOps
    /\ base_output_dir \in dirs
    /\ dirs' = {d \in dirs : d # base_output_dir /\ ~IsUnder(d, base_output_dir)}
    /\ files' = Without(files, {p \in DOMAIN files : IsUnder(p, base_output_dir)})
    /\ call' = Called("remove_output_tree", [none |-> None])
    /\ ret' = None
    /\ used' = used + 1
    /\ UNCHANGED <<base_output_dir, auto_cleanup_days, settings, config_file,
                   now, held>>

\* time passes
Tick(dt) ==
    /\ used < MaxOps
    /\ now' = now + dt
    /\ call' = Called("tick", [dt |-> dt])
    /\ ret' = None
    /\ used' = used + 1
    /\ UNCHANGED <<base_output_dir, auto_cleanup_days, settings, config_file,
                   dirs, files, held>>

\* one PDF operation at a time: it gets a path and saves its output there
NextPaths ==
    \/ \E a \in PathCalls : GetOutputPath("c1", a)
    \/ \E size \in WriteSizes : WriteFile("c1", size)
    \/ FailWrite("c1")
    \/ \E dt \in ClockSteps : Tick(dt)

Next ==
    \/ NextPaths
    \/ \E days_arg \in ConstructorDays : Construct(days_arg)
    \/ \E ty \in BatchTypes : GetBatchOutputDirectory(ty)
    \/ EnsureStructure
    \/ \E d \in BaseDirs : SetBaseOutputDirectory(d)
    \/ \E kwargs \in KwargsArgs : ConfigureSettings(kwargs)
    \/ \E cl \in CleanupCalls : ManualCleanup(cl[1], cl[2])
    \/ GetOutputStatistics
    \/ RemoveOutputTree
    \/ \E d \in InputDirs, saved \in BOOLEAN : BatchProcessDirectory(d, saved)

Spec == Init /\ [][Next]_vars

\* the same manager started in the crowded month directory
InitCrowded == InitIn({EnvCrowded})

SpecCrowded == InitCrowded /\ [][NextPaths]_vars

\* two PDF operations at a time, each getting its path and saving there, in
\* any interleaving
NextTwo ==
    \/ \E c \in Callers, a \in PathCalls : GetOutputPath(c, a)
    \/ \E c \in Callers, size \in WriteSizes : WriteFile(c, size)
    \/ \E c \in Callers : FailWrite(c)
    \/ \E dt \in ClockSteps : Tick(dt)

SpecTwo == Init /\ [][NextTwo]_vars

----------------------------------------------------------------------------
(* _load_settings on its own, over the settings files it may meet *)

KeyOrder ==
    <<"base_output_dir", "auto_cleanup_days", "create_subdirectories",
      "add_timestamp", "preserve_original_names", "max_files_per_directory">>

KeysIn(S) == SelectSeq(KeyOrder, LAMBDA k : k \in S)

\* no file, a file that cannot be opened, a file that is not JSON, JSON that
\* is a number, null, a list of strings or a string, and records
LoadableConfigs ==
    {[kind |-> "absent"], [kind |-> "unreadable"], [kind |-> "malformed"],
     [kind |-> "number"], [kind |-> "null"]}
    \cup {[kind |-> "list", items |-> KeysIn(S)] :
              S \in SUBSET {KeyOrder[i] : i \in DOMAIN KeyOrder}}
    \cup {[kind |-> "list", items |-> <<"a", "b">>]}
    \cup {[kind |-> "string", text |-> t] : t \in {"", "dark", "auto_cleanup_days"}}
    \cup ConfigFiles
    \cup {SaveSettings(DefaultSettings(DefaultBase, 7))}

InitLoad ==
    /\ config_file \in LoadableConfigs
    /\ auto_cleanup_days \in ConstructorDays
    /\ base_output_dir = DefaultBase
    /\ settings = <<>>
    /\ dirs = EnvEmpty.ds
    /\ files = EnvEmpty.fs
    /\ now = T0
    /\ held = [c \in Callers |-> NoPath]
    /\ call = [op |-> "__init__", repeat |-> FALSE, prev_ret |-> None,
                args |-> [none |-> None]]
    /\ ret = None
    /\ used = 0

\* self.settings = self._load_settings(); ret is what was returned, with its
\* type
LoadStep ==
    LET r == LoadSettingsTyped(base_output_dir, auto_cleanup_days, config_file) IN
    /\ call.op = "__init__"
    /\ call' = Called("_load_settings", [none |-> None])
    /\ ret' = r
    /\ settings' = IF r.type = "dict" THEN r.value ELSE settings
    /\ UNCHANGED <<base_output_dir, auto_cleanup_days, config_file, dirs, files,
                   now, held, used>>

NextLoad == LoadStep

SpecLoad == InitLoad /\ [][NextLoad]_vars

----------------------------------------------------------------------------
(* What the claims speak of *)

Exists(p) == ExistsOn(dirs, files, p)

\* the last operation was get_output_path; ret is the path it returned, and
\* the disk, the settings and the clock are those of the call
IsGet == call.op = "get_output_path"

\* the directory, the canonical name and the disambiguated names of that call
CallDir == OutputDir(base_output_dir, settings, call.args.output_type, now)

CallParts ==
    FilenameParts(settings, call.args.original_filename, call.args.output_type,
                  call.args.custom_suffix, now)

CallExt == FileExtension(call.args.original_filename, call.args.extension)

Canonical == CallDir \o <<Filename(CallParts, CallExt)>>

Numbered(k) == CallDir \o <<FilenameWithCounter(CallParts, k, CallExt)>>

----------------------------------------------------------------------------
(* C1: the path get_output_path returns does not exist on disk at the      *)
(* moment it is returned, whatever the filename, the type, the settings    *)
(* and the disk.                                                           *)
C1_ReturnedPathIsFree == IsGet => ~Exists(ret)

----------------------------------------------------------------------------
----------------------------------------------------------------------------
(* manual_cleanup as a step: call' holds its arguments, the unprimed        *)
(* variables the disk before it, the primed ones the disk after it          *)

IsCleanup(c) == c.op = "manual_cleanup"

\* the retention the call works with: days_older_than, or auto_cleanup_days
\* when it is omitted
CleanupDays(c) ==
    IF c.args.days_older_than = <<>> THEN auto_cleanup_days
    ELSE c.args.days_older_than[1]

\* the files the call looks at: below base_dir, or below base_dir/<t> for a
\* t of file_types when file_types is given
InScope(p, c) ==
    IF c.args.file_types = <<>> THEN IsUnder(p, base_output_dir)
    ELSE \E i \in DOMAIN c.args.file_types :
            IsUnder(p, base_output_dir \o <<c.args.file_types[i]>>)

\* the *.pdf files in scope that are strictly older than now - d days
Expired(fs, c, t) ==
    {p \in DOMAIN fs : /\ InScope(p, c)
                       /\ EndsWith(Last(p), ".pdf")
                       /\ fs[p].mtime < t - CleanupDays(c) * SecondsPerDay}

----------------------------------------------------------------------------
(* C3: manual_cleanup with a retention d > 0 and no per-file error deletes *)
(* exactly the *.pdf files in scope whose modification time is strictly    *)
(* earlier than now - d days (a file at the cutoff is kept, as is every    *)
(* younger file and every other file), and deleted_files is their number.  *)
C3_DeletesExactlyTheExpired ==
    [][(/\ IsCleanup(call')
        /\ CleanupDays(call') > 0
        /\ \A p \in Expired(files, call', now) : ~files[p].locked)
       => (/\ DOMAIN files' = DOMAIN files \ Expired(files, call', now)
           /\ \A p \in DOMAIN files' : files'[p] = files[p]
           /\ ret'.deleted_files = Cardinality(Expired(files, call', now)))]_vars

\* cleanup(30) of merged/ deleted the file one second older than the cutoff
\* and kept the file whose modification time is the cutoff
C3_Witness ==
    LET atCutoff == DefaultBase \o <<"merged", "2026", "08", "b_merged.pdf">>
        older == DefaultBase \o <<"merged", "2026", "08", "a_merged.pdf">>
    IN  /\ IsCleanup(call)
        /\ call.args.days_older_than = <<DefaultCleanupDays>>
        /\ ret.deleted_files = 1
        /\ older \notin DOMAIN files
        /\ atCutoff \in DOMAIN files
        /\ files[atCutoff].mtime = now - DefaultCleanupDays * SecondsPerDay

----------------------------------------------------------------------------
(* C4: with a non-empty file_types, every file manual_cleanup deletes lies *)
(* below base_dir/<t> for a t of file_types; files of other types and      *)
(* files directly in base_dir are kept whatever their age.                 *)
C4_DeletesOnlyInNamedTypes ==
    [][(IsCleanup(call') /\ call'.args.file_types # <<>>)
       => \A p \in DOMAIN files \ DOMAIN files' :
             \E i \in DOMAIN call'.args.file_types :
                IsUnder(p, base_output_dir \o <<call'.args.file_types[i]>>)]_vars

\* a cleanup of merged/ deleted a file while an expired, deletable *.pdf
\* outside merged/ is still there
C4_Witness ==
    /\ IsCleanup(call)
    /\ call.args.file_types = <<"merged">>
    /\ ret.deleted_files > 0
    /\ \E p \in DOMAIN files :
          /\ IsUnder(p, base_output_dir)
          /\ ~IsUnder(p, base_output_dir \o <<"merged">>)
          /\ EndsWith(Last(p), ".pdf")
          /\ ~files[p].locked
          /\ files[p].mtime < now - CleanupDays(call) * SecondsPerDay

----------------------------------------------------------------------------
(* C5: manual_cleanup with days_older_than <= 0, or with it omitted while  *)
(* auto_cleanup_days <= 0, returns deleted_files = 0 and deleted_size_mb   *)
(* = 0 and leaves every file and every directory as it was.                *)
C5_NoRetentionNoEffect ==
    [][(IsCleanup(call') /\ CleanupDays(call') <= 0)
       => (/\ ret' = [deleted_files |-> 0, deleted_size_mb |-> 0]
           /\ files' = files
           /\ dirs' = dirs)]_vars

\* the call ran with retention 0 on a disk with *.pdf files, and an empty
\* directory, below base_dir
C5_Witness ==
    /\ IsCleanup(call)
    /\ CleanupDays(call) = 0
    /\ \E p \in DOMAIN files : IsUnder(p, base_output_dir) /\ EndsWith(Last(p), ".pdf")
    /\ \E d \in dirs : IsUnder(d, base_output_dir) /\ Entries(dirs, files, d) = {}

----------------------------------------------------------------------------
(* C6: manual_cleanup run a second time right after the first, with the    *)
(* same arguments and clock and nothing changed in between, deletes        *)
(* nothing (deleted_files = 0) and leaves the disk as the first run left   *)
(* it.                                                                     *)
C6_SecondRunChangesNothing ==
    [][(IsCleanup(call') /\ call'.repeat)
       => (/\ ret'.deleted_files = 0
           /\ files' = files
           /\ dirs' = dirs)]_vars

\* the second of two equal runs, the first of which deleted files
C6_Witness ==
    /\ IsCleanup(call)
    /\ call.repeat
    /\ call.prev_ret.deleted_files > 0
    /\ ret.deleted_files = 0

----------------------------------------------------------------------------
(* C7: with create_subdirectories enabled, once construction,              *)
(* set_base_output_directory or configure_settings(create_subdirectories  *)
(* =True) has completed, base_dir/<type>/<year>/<month:02> exists for      *)
(* every OutputType.                                                       *)
C7_StructureAfterSetup ==
    (/\ settings["create_subdirectories"]
     /\ \/ call.op \in {"construct", "set_base_output_directory"}
        \/ /\ call.op = "configure_settings"
           /\ "create_subdirectories" \in DOMAIN call.args.kwargs
           /\ call.args.kwargs["create_subdirectories"])
    => \A ty \in OutputTypes :
          (base_output_dir \o <<ty, YearStr(now), MonthStr(now)>>) \in dirs

----------------------------------------------------------------------------
(* C8: _create_directory_structure removes or alters no file and no        *)
(* directory, and run a second time right after the first (same settings, *)
(* same date) it leaves the set of directories as the first run left it.   *)
C8_StructureIdempotent ==
    [][(call'.op = "_create_directory_structure")
       => (/\ dirs \subseteq dirs'
           /\ files' = files
           /\ call'.repeat => dirs' = dirs)]_vars

\* the second of two runs in a row, with the subdirectories enabled and made
C8_Witness ==
    /\ call.op = "_create_directory_structure"
    /\ call.repeat
    /\ settings["create_subdirectories"]
    /\ \A ty \in OutputTypes : MonthDir(base_output_dir, ty, now) \in dirs

----------------------------------------------------------------------------
(* C9: the directory of the path get_output_path returns is                *)
(* base_dir/<type>/<year>/<month, two digits> when create_subdirectories   *)
(* is enabled and base_dir itself when it is disabled; either way the      *)
(* path lies below the manager's base directory.                           *)
C9_DirectoryOfPath ==
    IsGet =>
        /\ IsUnder(ret, base_output_dir)
        /\ IF settings["create_subdirectories"]
           THEN /\ Parent(ret) = base_output_dir
                        \o <<call.args.output_type, ToString(YearOf(now)), Pad2(MonthOf(now))>>
                /\ Len(Last(Parent(ret))) = 2
           ELSE Parent(ret) = base_output_dir

\* a path handed out with the subdirectories disabled
C9_Witness ==
    /\ IsGet
    /\ ~settings["create_subdirectories"]
    /\ Parent(ret) = base_output_dir

----------------------------------------------------------------------------
(* C10: without a collision, the name get_output_path returns is the       *)
(* '_'-join of the original stem (iff preserve_original_names), then       *)
(* custom_suffix if one is provided and else the type's default suffix,    *)
(* then the timestamp YYYYMMDD_HHMMSS (iff add_timestamp), followed by     *)
(* the extension; the suffix part is always there, so the joined name is   *)
(* never empty.  A custom_suffix of None or "" counts as not provided.     *)
ExpectedSuffixPart ==
    IF call.args.custom_suffix \notin {None, ""} THEN call.args.custom_suffix
    ELSE call.args.output_type

ExpectedJoined ==
    (IF settings["preserve_original_names"]
     THEN PathStem(call.args.original_filename) \o "_" ELSE "")
    \o ExpectedSuffixPart
    \o (IF settings["add_timestamp"] THEN "_" \o Timestamp(now) ELSE "")

ExpectedExtension ==
    IF call.args.extension \notin {None, ""} THEN call.args.extension
    ELSE IF PathSuffix(call.args.original_filename) # ""
    THEN PathSuffix(call.args.original_filename)
    ELSE ".pdf"

C10_FilenameIsJoinOfParts ==
    (IsGet /\ ~Exists(Parent(ret) \o <<ExpectedJoined \o ExpectedExtension>>))
    => /\ Last(ret) = ExpectedJoined \o ExpectedExtension
       /\ Len(ExpectedJoined) > 0
       /\ settings["add_timestamp"] => Len(Timestamp(now)) = 15

\* stem, custom suffix and timestamp, joined in this order
C10_Witness ==
    /\ IsGet
    /\ Last(ret) = "memo_batch_20260930_235959.pdf"

----------------------------------------------------------------------------
(* C11: a call of get_output_path that follows a call with the same        *)
(* arguments, with the settings, the clock second and the files unchanged  *)
(* in between, returns the same path, and the call writes no file: it      *)
(* reserves nothing.                                                       *)
C11_RepeatedCallSamePath ==
    [][(call'.op = "get_output_path" /\ call'.repeat)
       => (ret' = ret /\ files' = files)]_vars

\* the second of two equal calls, for ("memo", merged, custom_suffix "batch"),
\* in a directory where the canonical name and (1) are taken
C11_Witness ==
    /\ IsGet
    /\ call.repeat
    /\ call.args.custom_suffix = "batch"
    /\ call.prev_ret = ret
    /\ Exists(Canonical)
    /\ ret = Numbered(2)

----------------------------------------------------------------------------
(* get_output_statistics as the last operation: ret is the statistics of   *)
(* the disk as it is                                                       *)

IsStats == call.op = "get_output_statistics"

\* the *.pdf files saved since the manager started: each lies at a path
\* get_output_path handed out
Written ==
    {p \in DOMAIN files : /\ files[p].mtime >= T0
                          /\ IsUnder(p, base_output_dir)
                          /\ EndsWith(Last(p), ".pdf")}

\* the files of Written at base_dir/<type>/<year>/<month>/<name>, the paths
\* handed out with create_subdirectories enabled
WrittenOfType(ty) ==
    {p \in Written : /\ Len(p) = Len(base_output_dir) + 4
                     /\ p[Len(base_output_dir) + 1] = ty}

RECURSIVE SumCounts(_, _)
SumCounts(groups, keys) ==
    IF keys = {} THEN 0
    ELSE LET k == CHOOSE x \in keys : TRUE IN
         groups[k].count + SumCounts(groups, keys \ {k})

----------------------------------------------------------------------------
(* C12: a file saved at the path get_output_path(f, T) returned with       *)
(* create_subdirectories enabled is counted by get_output_statistics under *)
(* the by_type key that is T's value.                                      *)
C12_CountedUnderItsType ==
    IsStats =>
        \A ty \in OutputTypes :
            WrittenOfType(ty) # {} =>
                /\ ty \in DOMAIN ret.by_type
                /\ ret.by_type[ty].count >= Cardinality(WrittenOfType(ty))

----------------------------------------------------------------------------
(* C13: with N *.pdf files below base_dir, at whatever depth,              *)
(* get_output_statistics returns total_files = N, the counts of by_type    *)
(* add up to N and the counts of by_date add up to N; when base_dir does   *)
(* not exist it returns the zeroed structure.                              *)
PdfFilesBelowBase ==
    {p \in DOMAIN files : IsUnder(p, base_output_dir) /\ EndsWith(Last(p), ".pdf")}

C13_TotalsAddUp ==
    IsStats =>
        IF Exists(base_output_dir)
        THEN /\ ret.total_files = Cardinality(PdfFilesBelowBase)
             /\ SumCounts(ret.by_type, DOMAIN ret.by_type) = Cardinality(PdfFilesBelowBase)
             /\ SumCounts(ret.by_date, DOMAIN ret.by_date) = Cardinality(PdfFilesBelowBase)
        ELSE ret = [total_files |-> 0, total_size_mb |-> 0,
                    by_type |-> <<>>, by_date |-> <<>>]

\* statistics over files directly in base_dir and four levels below it, of
\* several parent directories and several months
C13_Witness ==
    /\ IsStats
    /\ ret.total_files >= 3
    /\ \E p \in PdfFilesBelowBase : Parent(p) = base_output_dir
    /\ \E p \in PdfFilesBelowBase : Len(p) = Len(base_output_dir) + 4
    /\ Cardinality(DOMAIN ret.by_type) >= 2
    /\ Cardinality(DOMAIN ret.by_date) >= 2

----------------------------------------------------------------------------
(* C14: construction runs the auto-cleanup pass once when the              *)
(* auto_cleanup_days setting is > 0 and not at all when it is 0: once      *)
(* auto_cleanup_days = 0 is configured and persisted, a manager            *)
(* constructed from the persisted settings deletes no file.                *)
C14_NoCleanupWhenSetToZero ==
    [][(call'.op = "construct" /\ settings'["auto_cleanup_days"] = 0)
       => files' = files]_vars

----------------------------------------------------------------------------
(* C15: after configure_settings(k = v) for the keys k of the allow-list, *)
(* a fresh _load_settings of the persisted file gives a record in which    *)
(* each such k has the value v, every other key that was set keeps its     *)
(* value, and a key the file lacks has its default.                        *)
FreshLoad(cfg) == LoadSettings(DefaultBase, DefaultCleanupDays, cfg)

AllowList ==
    {"auto_cleanup_days", "create_subdirectories", "add_timestamp",
     "preserve_original_names", "max_files_per_directory"}

C15_SettingsRoundTrip ==
    [][(call'.op = "configure_settings")
       => LET kwargs == call'.args.kwargs
              loaded == FreshLoad(config_file')
              defaults == DefaultSettings(DefaultBase, DefaultCleanupDays)
          IN  /\ \A k \in DOMAIN kwargs \cap AllowList :
                    k \in DOMAIN loaded /\ loaded[k] = kwargs[k]
              /\ \A k \in DOMAIN settings \ (DOMAIN kwargs \cap AllowList) :
                    k \in DOMAIN loaded /\ loaded[k] = settings[k]
              /\ \A k \in DOMAIN defaults \ DOMAIN config_file'.data :
                    loaded[k] = defaults[k]]_vars

\* configure_settings(auto_cleanup_days=0, max_files_per_directory=10) on
\* settings that came from a file with add_timestamp false and a key of its
\* own: the file now holds 10, false and that key
C15_Witness ==
    /\ call.op = "configure_settings"
    /\ "max_files_per_directory" \in DOMAIN call.args.kwargs
    /\ config_file.kind = "record"
    /\ config_file.data["max_files_per_directory"] = "10"
    /\ config_file.data["add_timestamp"] = "false"
    /\ "theme" \in DOMAIN config_file.data
    /\ FreshLoad(config_file)["max_files_per_directory"] = 10
    /\ FreshLoad(config_file)["theme"] = "dark"

----------------------------------------------------------------------------
(* C16: configure_settings changes only keys of the allow-list: any other  *)
(* key passed (base_output_dir, an unknown name) is not added to the       *)
(* settings and changes no settings value, the values of the keys not      *)
(* passed stay as they were, and the base directory stays as it was.       *)
C16_OnlyAllowListedKeysChange ==
    [][(call'.op = "configure_settings")
       => LET kwargs == call'.args.kwargs IN
          /\ base_output_dir' = base_output_dir
          /\ DOMAIN settings' = DOMAIN settings \cup (DOMAIN kwargs \cap AllowList)
          /\ \A k \in DOMAIN settings :
                (k \notin AllowList \/ k \notin DOMAIN kwargs) => settings'[k] = settings[k]
          /\ \A k \in DOMAIN kwargs \cap AllowList : settings'[k] = kwargs[k]]_vars

\* configure_settings(base_output_dir=.., theme=..) on settings that hold
\* another theme and another base directory
C16_Witness ==
    /\ call.op = "configure_settings"
    /\ "theme" \in DOMAIN call.args.kwargs
    /\ "base_output_dir" \in DOMAIN call.args.kwargs
    /\ "theme" \in DOMAIN settings
    /\ settings["theme"] # call.args.kwargs["theme"]
    /\ settings["base_output_dir"] # call.args.kwargs["base_output_dir"]
    /\ base_output_dir = DefaultBase

----------------------------------------------------------------------------
(* C17: set_base_output_directory(d) makes d the base directory, persists  *)
(* d as base_output_dir in the settings file, and creates the structure    *)
(* below d; every file and directory that was there, those below the       *)
(* previous base directory among them, stays as it was.                    *)
C17_BaseChangedNothingMoved ==
    [][(call'.op = "set_base_output_directory")
       => LET d == call'.args.new_directory IN
          /\ PathStr(base_output_dir') = d
          /\ settings'["base_output_dir"] = d
          /\ config_file'.kind = "record"
          /\ config_file'.data["base_output_dir"] = "\"" \o d \o "\""
          /\ base_output_dir' \in dirs'
          /\ settings'["create_subdirectories"] =>
                \A ty \in OutputTypes :
                    (base_output_dir' \o <<ty, YearStr(now), MonthStr(now)>>) \in dirs'
          /\ files' = files
          /\ dirs \subseteq dirs']_vars

\* the base directory was changed while the previous one held files
C17_Witness ==
    /\ call.op = "set_base_output_directory"
    /\ base_output_dir = <<"/", "data", "out">>
    /\ \E p \in DOMAIN files : IsUnder(p, DefaultBase)
    /\ \E q \in dirs : IsUnder(q, DefaultBase)
    /\ (base_output_dir \o <<"split", "2026", "09">>) \in dirs

----------------------------------------------------------------------------
(* C18: the batch_<timestamp> folder get_batch_output_directory returns is *)
(* unique to the call: no two calls return the same folder.                *)
C18_BatchFolderUnique ==
    (call.op = "get_batch_output_directory" /\ call.repeat) => ret # call.prev_ret

----------------------------------------------------------------------------
(* C20: get_output_path ends on every disk: it returns the canonical name  *)
(* or a name with a disambiguator from 1 to 1000, no more than 1000 are    *)
(* tried, and when the canonical name and all of (1)..(1000) exist it      *)
(* returns the last one tried, the name with (1000).                       *)
C20_LoopBounded ==
    IsGet =>
        /\ ret = Canonical \/ \E k \in 1..1000 : ret = Numbered(k)
        /\ (Exists(Canonical) /\ \A k \in 1..1000 : Exists(Numbered(k)))
               => ret = Numbered(1000)

\* the call that found the canonical name and (1)..(1000) taken
C20_Witness ==
    /\ IsGet
    /\ Exists(Canonical)
    /\ \A k \in 1..1000 : Exists(Numbered(k))
    /\ ret = Numbered(1000)

----------------------------------------------------------------------------
(* C19: when the settings file is absent, unreadable, not valid JSON, or   *)
(* valid JSON that is not a key/value record, _load_settings returns       *)
(* exactly the default settings.                                           *)
C19_FallsBackToDefaults ==
    (call.op = "_load_settings" /\ config_file.kind # "record")
    => /\ ret.type = "dict"
       /\ ret.value = DefaultSettings(base_output_dir, auto_cleanup_days)

----------------------------------------------------------------------------
(* C21: when the canonical name and every disambiguated name up to the     *)
(* attempt bound exist, path generation fails: no path is handed out.      *)
C21_FailsAtCeiling ==
    (IsGet /\ Exists(Canonical) /\ \A k \in 1..MaxAttempts : Exists(Numbered(k)))
    => (ret = NoPath /\ \A c \in Callers : held[c] = NoPath)

----------------------------------------------------------------------------
(* C22: after a cleanup pass that ran (retention > 0), manual or at        *)
(* construction, no empty directory is left strictly below base_dir; a     *)
(* parent emptied by the removal of its children goes in the same pass.    *)
PassRan(c) ==
    \/ IsCleanup(c) /\ CleanupDays(c) > 0
    \/ c.op = "construct" /\ c.args.days_arg > 0

C22_NoEmptyDirectoryLeft ==
    [][PassRan(call')
       => \A d \in dirs' :
             IsUnder(d, base_output_dir') => Entries(dirs', files', d) # {}]_vars

\* cleanup(1) of compressed/ and merged/ deleted three files; compressed/ went
\* with all its levels, merged/2026/08 went, merged/2026/09 stayed
C22_Witness ==
    /\ IsCleanup(call)
    /\ call.args.days_older_than = <<1>>
    /\ ret.deleted_files = 3
    /\ (DefaultBase \o <<"compressed">>) \notin dirs
    /\ (DefaultBase \o <<"merged", "2026", "08">>) \notin dirs
    /\ (DefaultBase \o <<"merged", "2026", "09">>) \in dirs

----------------------------------------------------------------------------
(* C23: get_output_path makes its target directory and no file: after the  *)
(* call the directory of the returned path exists, whatever cleanups,      *)
(* changes of base directory and of settings came before, and the files    *)
(* on disk are those of before the call.                                   *)
C23_DirectoryMadeNoFileMade ==
    [][(call'.op = "get_output_path")
       => (/\ ret' # NoPath
           /\ Parent(ret') \in dirs'
           /\ files' = files)]_vars

\* a path handed out while the month directories of other types are not
\* there: the structure was pruned, or never made
C23_Witness ==
    /\ IsGet
    /\ settings["create_subdirectories"]
    /\ Parent(ret) \in dirs
    /\ MonthDir(base_output_dir, "split", now) \notin dirs
    /\ ~Exists(ret)

----------------------------------------------------------------------------
(* C24: every output file batch_process_directory produced lies inside the *)
(* batch directory it reports as results['output_directory'].              *)
C24_OutputsInBatchDirectory ==
    (call.op = "batch_process_directory" /\ ret.status = "returned")
    => \A i \in DOMAIN ret.processed_list :
          IsUnder(ret.processed_list[i], ret.output_directory)

----------------------------------------------------------------------------
(* C25: getting a path and writing to it are two steps.  A write that      *)
(* comes right after the get_output_path that returned its path, nothing   *)
(* in between (sequential use), goes to a path no file has, so the paths   *)
(* written are pairwise distinct; with two callers interleaved a state is  *)
(* reached in which both hold the same path.                               *)
C25_SequentialWritesAreFresh ==
    [][(/\ call'.op = "write"
        /\ call.op = "get_output_path"
        /\ call'.args.path = ret)
       => (/\ call'.args.path \notin DOMAIN files
           /\ call'.args.path \in DOMAIN files')]_vars

\* both callers hold the same path, for the same filename, type and second
C25_Witness ==
    /\ held["c1"] # NoPath
    /\ held["c1"] = held["c2"]
    /\ ~Exists(held["c1"])

----------------------------------------------------------------------------
(* C26: _load_settings merges the file's record with the defaults key by   *)
(* key: each default key has the file's value when the file has the key    *)
(* and the default otherwise, so every default key is there after the      *)
(* load; and the file's keys that are no known settings change nothing in  *)
(* what get_output_path and get_batch_output_directory return.             *)
KnownKeys == {KeyOrder[i] : i \in DOMAIN KeyOrder}

Restrict(st) == [k \in DOMAIN st \cap KnownKeys |-> st[k]]

C26_MergeKeyByKey ==
    /\ (call.op = "construct" /\ config_file.kind = "record")
       => \A k \in KnownKeys :
             /\ k \in DOMAIN settings
             /\ settings[k] =
                   IF k \in DOMAIN config_file.data THEN JsonValue(config_file.data[k])
                   ELSE DefaultSettings(base_output_dir, auto_cleanup_days)[k]
    /\ IsGet
       => ret = OutputPathResult(dirs, files, base_output_dir, Restrict(settings),
                                 call.args.original_filename, call.args.output_type,
                                 call.args.custom_suffix, call.args.extension,
                                 now).output_path
    /\ (call.op = "get_batch_output_directory")
       => ret = BatchDir(base_output_dir, Restrict(settings), call.args.output_type, now)

\* a manager constructed from a file that sets add_timestamp to false, has a
\* key of its own and lacks the other settings
C26_Witness ==
    /\ call.op = "construct"
    /\ config_file.kind = "record"
    /\ "theme" \in DOMAIN config_file.data
    /\ "create_subdirectories" \notin DOMAIN config_file.data
    /\ settings["add_timestamp"] = FALSE
    /\ settings["create_subdirectories"] = TRUE
    /\ settings["max_files_per_directory"] = 1000

----------------------------------------------------------------------------
(* C27: in every state of a manager the settings record agrees with what   *)
(* the manager uses: settings['base_output_dir'] names the base directory  *)
(* in use and settings['auto_cleanup_days'] is the retention in use.       *)
C27_SettingsAgreeWithManager ==
    /\ settings["base_output_dir"] = PathStr(base_output_dir)
    /\ settings["auto_cleanup_days"] = auto_cleanup_days

----------------------------------------------------------------------------
(* C28: a file whose deletion fails in a cleanup pass is counted neither   *)
(* in deleted_files nor in deleted_size_mb: the size returned is the       *)
(* total size of the files that were deleted, and the walk goes on to the  *)
(* other files.                                                            *)
C28_FailedFileNotCounted ==
    [][(IsCleanup(call') /\ CleanupDays(call') > 0)
       => LET deleted == DOMAIN files \ DOMAIN files' IN
          /\ ret'.deleted_files = Cardinality(deleted)
          /\ ret'.deleted_size_mb = RoundMiB(SumSizes(files, deleted))]_vars

----------------------------------------------------------------------------
(* C29: manual_cleanup restricted by file_types removes no directory       *)
(* outside base_dir/<t>, t in file_types: the subtrees of the other types  *)
(* stay as they were, directories included.                                *)
C29_OtherTypesKeepDirectories ==
    [][(IsCleanup(call') /\ call'.args.file_types # <<>>)
       => \A d \in dirs \ dirs' :
             \E i \in DOMAIN call'.args.file_types :
                LET type_dir == base_output_dir \o <<call'.args.file_types[i]>>
                IN  d = type_dir \/ IsUnder(d, type_dir)]_vars

----------------------------------------------------------------------------
(* C30: no cleanup pass, at construction or manual, deletes a file that    *)
(* is not *.pdf, alters a file it leaves, removes a directory that still   *)
(* has an entry, removes base_dir itself, or removes anything outside      *)
(* base_dir.                                                               *)
IsPass(c) == IsCleanup(c) \/ c.op = "construct"

C30_SafeDeletion ==
    [][IsPass(call')
       => (/\ \A p \in DOMAIN files \ DOMAIN files' :
                 EndsWith(Last(p), ".pdf") /\ IsUnder(p, base_output_dir')
           /\ \A p \in DOMAIN files' : p \in DOMAIN files /\ files'[p] = files[p]
           /\ \A d \in dirs \ dirs' :
                 /\ IsUnder(d, base_output_dir')
                 /\ \A q \in dirs' \cup DOMAIN files' : ~IsUnder(q, d)
           /\ base_output_dir' \in dirs => base_output_dir' \in dirs')]_vars

\* a cleanup deleted files and removed directories; the old file that is not
\* a *.pdf, its directories, and the old *.pdf outside base_dir are there
C30_Witness ==
    /\ IsCleanup(call)
    /\ ret.deleted_files > 0
    /\ (DefaultBase \o <<"split">>) \notin dirs
    /\ (DefaultBase \o <<"converted", "2026", "08", "page.txt">>) \in DOMAIN files
    /\ (DefaultBase \o <<"converted", "2026", "08">>) \in dirs
    /\ (Cwd \o <<"inbox", "x.pdf">>) \in DOMAIN files
    /\ base_output_dir = DefaultBase
    /\ base_output_dir \in dirs

=============================================================================
